---- MODULE Spec2Model ----
(***************************************************************************)
(* CHMProbObjBox<T1> (src/HMProbObjBox.h): a pool of (object, count) pairs *)
(* with a cached total count, a weighted Draw, and Modify / Clear.         *)
(*                                                                         *)
(* The C++ int is modelled as a two's-complement integer of IntBits bits;  *)
(* every addition and subtraction of the code goes through Wrap, and the   *)
(* ghost flag ovf records whether an exact result left the int range.      *)
(* T1 is modelled by the finite set Items, compared by equality.           *)
(***************************************************************************)
EXTENDS Integers, Sequences, FiniteSets, TLC

\* ------------------------------------------------------------------ bounds
\* Width of the C++ int in bits.
IntBits == 3
\* Number of distinct values of T1.
NumItems == 2
\* Longest array / container handed to one Modify call.
MaxLen == 2

\* ------------------------------------------------------------- int model
TwoPowW == 2 ^ IntBits
INT_MAX == 2 ^ (IntBits - 1) - 1
INT_MIN == -(2 ^ (IntBits - 1))
Ints == INT_MIN .. INT_MAX
\* rand() yields a value in 0 .. RAND_MAX.
RAND_MAX == INT_MAX

InInt(x) == INT_MIN <= x /\ x <= INT_MAX
\* The int a machine addition or subtraction leaves for the exact result x.
Wrap(x) == ((x - INT_MIN) % TwoPowW) + INT_MIN

Items == 1 .. NumItems
\* "No object": the value of an out-parameter that was not written.
NoObj == 0
\* A null pointer argument.
NULL == <<>>

\* static const members
m_scnProbObjBoxCapacity == INT_MAX
m_scunCHMProbObjBoxVersion == 1

VARIABLES
  m_nCurrentProbObjCount,  \* int: the cached total count
  m_vecProbObjPool,        \* std::vector<std::pair<T1,int>>: seq of [first, second]
  last                     \* ghost: the last call, its arguments, pre-state and result

vars == <<m_nCurrentProbObjCount, m_vecProbObjPool, last>>

\* ---------------------------------------------------------------- helpers
RECURSIVE SumSeconds(_)
\* Exact sum of the counts stored in a pool.
SumSeconds(pool) ==
  IF pool = <<>> THEN 0 ELSE pool[1].second + SumSeconds(Tail(pool))

\* Erase that removes the first element whatever i is (erase(begin())).
Erase_Front(pool, i) == SubSeq(pool, 2, Len(pool))

\* Erase element i of a vector (std::vector::erase).
Erase(pool, i) == SubSeq(pool, 1, i - 1) \o SubSeq(pool, i + 1, Len(pool))

\* FindFirst with the scan started at the second entry (begin() + 1).
FindFirst_SkipsBegin(pool, obj, i) ==
  LET Hits == { k \in (i + 1) .. Len(pool) : obj = pool[k].first }
  IN IF Hits = {} THEN 0 ELSE CHOOSE k \in Hits : \A h \in Hits : k <= h

RECURSIVE FindFirst(_, _, _)
\* Index of the first entry at or after i whose key equals obj, 0 if none:
\* the forward scan `for (it = begin; it != end; it++) if (obj == it->first)`.
FindFirst(pool, obj, i) ==
  IF i > Len(pool) THEN 0
  ELSE IF obj = pool[i].first THEN i
  ELSE FindFirst(pool, obj, i + 1)

\* ------------------------------------------------------------- GetCount
\* GetCount(NULL) is written GetCount(pool, total, NoObj).
GetCount(pool, total, pProbObj) ==
  IF pProbObj = NoObj THEN total
  ELSE LET i == FindFirst(pool, pProbObj, 1)
       IN IF i # 0 THEN pool[i].second ELSE 0

GetPool == m_vecProbObjPool

\* Version returning the number of the later design revision.
Version_OfV2 == m_scunCHMProbObjBoxVersion + 1

\* unsigned int Version() const
Version == m_scunCHMProbObjBoxVersion

\* ------------------------------------------------------ ModifyProbObjPool
\* ModifyProbObjPool with `it->second = nCount` for an entry that exists
\* (set-to instead of add-to).
ModifyProbObjPool_SetTo(pool, t1ProbObj, nCount, bThrow) ==
  LET i == FindFirst(pool, t1ProbObj, 1) IN
  IF i # 0 THEN
    IF 0 > nCount THEN
      [pool |-> pool, ret |-> FALSE, threw |-> FALSE, ovf |-> FALSE]
    ELSE
      [pool |-> [pool EXCEPT ![i].second = nCount],
       ret |-> TRUE, threw |-> FALSE, ovf |-> FALSE]
  ELSE IF 0 > nCount THEN
    [pool |-> pool, ret |-> FALSE, threw |-> FALSE, ovf |-> FALSE]
  ELSE IF 0 < nCount /\ ~bThrow THEN
    [pool |-> Append(pool, [first |-> t1ProbObj, second |-> nCount]),
     ret |-> TRUE, threw |-> FALSE, ovf |-> FALSE]
  ELSE
    [pool |-> pool, ret |-> TRUE, threw |-> 0 < nCount, ovf |-> FALSE]

\* ModifyProbObjPool without the erase of an entry whose count reaches 0.
ModifyProbObjPool_NoErase(pool, t1ProbObj, nCount, bThrow) ==
  LET i == FindFirst(pool, t1ProbObj, 1) IN
  IF i # 0 THEN
    LET sum == Wrap(pool[i].second + nCount) IN
    IF 0 > sum THEN
      [pool |-> pool, ret |-> FALSE, threw |-> FALSE, ovf |-> FALSE]
    ELSE
      [pool |-> [pool EXCEPT ![i].second = sum],
       ret |-> TRUE, threw |-> FALSE, ovf |-> FALSE]
  ELSE IF 0 > nCount THEN
    [pool |-> pool, ret |-> FALSE, threw |-> FALSE, ovf |-> FALSE]
  ELSE IF 0 < nCount /\ ~bThrow THEN
    [pool |-> Append(pool, [first |-> t1ProbObj, second |-> nCount]),
     ret |-> TRUE, threw |-> FALSE, ovf |-> FALSE]
  ELSE
    [pool |-> pool, ret |-> TRUE, threw |-> 0 < nCount, ovf |-> FALSE]

\* bool ModifyProbObjPool(const T1&, const int nCount).  bThrow says whether
\* push_back throws (std::bad_alloc, or T1's copy constructor): the catch
\* blocks swallow the exception and the function still returns true.
\* Result: the pool afterwards, the returned bool, whether an exception was
\* swallowed, and whether `it->second + nCount` left the int range.
ModifyProbObjPool(pool, t1ProbObj, nCount, bThrow) ==
  LET i == FindFirst(pool, t1ProbObj, 1) IN
  IF i # 0 THEN
    LET exact == pool[i].second + nCount
        sum == Wrap(exact)
        o == ~InInt(exact)
    IN IF 0 > sum THEN
         [pool |-> pool, ret |-> FALSE, threw |-> FALSE, ovf |-> o]
       ELSE IF 0 = sum THEN
         [pool |-> Erase(pool, i), ret |-> TRUE, threw |-> FALSE, ovf |-> o]
       ELSE
         [pool |-> [pool EXCEPT ![i].second = sum],
          ret |-> TRUE, threw |-> FALSE, ovf |-> o]
  ELSE IF 0 > nCount THEN
    [pool |-> pool, ret |-> FALSE, threw |-> FALSE, ovf |-> FALSE]
  ELSE IF 0 < nCount THEN
    IF bThrow THEN
      [pool |-> pool, ret |-> TRUE, threw |-> TRUE, ovf |-> FALSE]
    ELSE
      [pool |-> Append(pool, [first |-> t1ProbObj, second |-> nCount]),
       ret |-> TRUE, threw |-> FALSE, ovf |-> FALSE]
  ELSE
    [pool |-> pool, ret |-> TRUE, threw |-> FALSE, ovf |-> FALSE]

\* ----------------------------------------------------------------- Modify
\* A box value while a Modify call runs: pool, total, and per processed pair
\* whether its push_back threw; ovf: some int computation overflowed.
BoxState(pool, total) ==
  [pool |-> pool, total |-> total, threw |-> <<>>, ovf |-> FALSE]

\* ModifyOne, bodies used by the variants below: apply the pair unguarded.
ModifyOne_Apply(st, obj, c, bThrow) ==
  LET r == ModifyProbObjPool(st.pool, obj, c, bThrow)
  IN IF ~r.ret THEN [st EXCEPT !.threw = Append(@, FALSE)]
     ELSE [pool |-> r.pool, total |-> Wrap(st.total + c),
           threw |-> Append(st.threw, r.threw),
           ovf |-> st.ovf \/ r.ovf \/ ~InInt(st.total + c)]

\* ModifyOne without the test `capacity - total < c`.
ModifyOne_NoCapacityCheck(st, obj, c, bThrow) ==
  IF 0 = c THEN [st EXCEPT !.threw = Append(@, FALSE)]
  ELSE ModifyOne_Apply(st, obj, c, bThrow)

\* ModifyOne with the capacity test off by one: `capacity - total + 1 < c`.
ModifyOne_CapacityOffByOne(st, obj, c, bThrow) ==
  IF 0 = c \/ m_scnProbObjBoxCapacity - st.total + 1 < c
  THEN [st EXCEPT !.threw = Append(@, FALSE)]
  ELSE ModifyOne_Apply(st, obj, c, bThrow)

\* ModifyOne with `0 >= c` for `0 == c`: take-outs are skipped.
ModifyOne_SkipsNonPositive(st, obj, c, bThrow) ==
  IF 0 >= c \/ m_scnProbObjBoxCapacity - st.total < c
  THEN [st EXCEPT !.threw = Append(@, FALSE)]
  ELSE ModifyOne_Apply(st, obj, c, bThrow)

\* ModifyOne with the capacity test written as an addition,
\* `total + c > capacity`, which overflows where it should fire.
ModifyOne_GuardAfterAdd(st, obj, c, bThrow) ==
  IF 0 = c \/ Wrap(st.total + c) > m_scnProbObjBoxCapacity
  THEN [st EXCEPT !.threw = Append(@, FALSE),
                  !.ovf = @ \/ ~InInt(st.total + c)]
  ELSE ModifyOne_Apply(st, obj, c, bThrow)

\* ModifyOne that adds the count to the total whatever ModifyProbObjPool
\* returned.
ModifyOne_IgnoresResult(st, obj, c, bThrow) ==
  IF 0 = c \/ m_scnProbObjBoxCapacity - st.total < c
  THEN [st EXCEPT !.threw = Append(@, FALSE)]
  ELSE LET r == ModifyProbObjPool(st.pool, obj, c, bThrow)
       IN [pool |-> r.pool, total |-> Wrap(st.total + c),
           threw |-> Append(st.threw, r.threw),
           ovf |-> st.ovf \/ r.ovf \/ ~InInt(st.total + c)]

\* One iteration of the loop of Modify (both overloads have the same body):
\*   if (0 == c || capacity - total < c) continue;
\*   if (!ModifyProbObjPool(obj, c)) continue;
\*   total += c;
ModifyOne(st, obj, c, bThrow) ==
  LET room == m_scnProbObjBoxCapacity - st.total
      skip == [st EXCEPT !.threw = Append(@, FALSE)]
  IN IF 0 = c THEN skip
     ELSE IF Wrap(room) < c THEN
       [skip EXCEPT !.ovf = @ \/ ~InInt(room)]
     ELSE
       LET r == ModifyProbObjPool(st.pool, obj, c, bThrow)
           o == st.ovf \/ ~InInt(room) \/ r.ovf
       IN IF ~r.ret THEN [skip EXCEPT !.ovf = o]
          ELSE [pool |-> r.pool,
                total |-> Wrap(st.total + c),
                threw |-> Append(st.threw, r.threw),
                ovf |-> o \/ ~InInt(st.total + c)]

RECURSIVE ModifyLoop_StopsAtSkip(_, _, _, _)
\* ModifyLoop with `break` for `continue`: the loop ends at the first pair
\* that is skipped.
ModifyLoop_StopsAtSkip(st, objs, counts, i) ==
  IF i > Len(objs) THEN {st}
  ELSE UNION { LET s == ModifyOne(st, objs[i], counts[i], b)
               IN IF s.pool = st.pool /\ s.total = st.total
                  THEN {s}
                  ELSE ModifyLoop_StopsAtSkip(s, objs, counts, i + 1)
               : b \in BOOLEAN }

RECURSIVE ModifyLoop(_, _, _, _)
\* The for loop over pairs i .. Len(objs): the set of box values it can end
\* in, one for every way the push_back calls can throw or not.
ModifyLoop(st, objs, counts, i) ==
  IF i > Len(objs) THEN {st}
  ELSE UNION { ModifyLoop(ModifyOne(st, objs[i], counts[i], b), objs, counts, i + 1)
               : b \in BOOLEAN }

\* ------------------------------------------------------------------- Draw
RECURSIVE FindLoop(_, _, _, _)
\* The loop of FindProbObjByRandKey from entry i on, nTop being the running
\* prefix sum.  Result: the returned bool, the object written to the
\* out-parameter (NoObj if it was not written), and whether some
\* `nTop += it->second` left the int range.
FindLoop(pool, i, nTop, nRandKey) ==
  IF i > Len(pool) THEN [ret |-> FALSE, obj |-> NoObj, ovf |-> FALSE]
  ELSE LET nBotton == nTop
           top == Wrap(nTop + pool[i].second)
           o == ~InInt(nTop + pool[i].second)
       IN IF nRandKey >= nBotton /\ nRandKey < top
          THEN [ret |-> TRUE, obj |-> pool[i].first, ovf |-> o]
          ELSE LET f == FindLoop(pool, i + 1, top, nRandKey)
               IN [f EXCEPT !.ovf = @ \/ o]

FindProbObjByRandKey(pool, nRandKey) == FindLoop(pool, 1, 0, nRandKey)

\* C's a % b for b # 0 (truncating division: the sign follows a).
CRem(a, b) ==
  LET aa == IF a < 0 THEN -a ELSE a
      bb == IF b < 0 THEN -b ELSE b
  IN IF a < 0 THEN -(aa % bb) ELSE aa % bb

\* DrawResult with `0 > m_nCurrentProbObjCount` as its first test.
DrawResult_NoEmptyCheck(pool, total, nRand, rnd) ==
  IF 0 > total THEN [ret |-> FALSE, obj |-> NoObj, ub |-> FALSE, ovf |-> FALSE]
  ELSE IF nRand < 0 /\ -1 # nRand THEN [ret |-> FALSE, obj |-> NoObj, ub |-> FALSE, ovf |-> FALSE]
  ELSE IF total = 0 THEN [ret |-> FALSE, obj |-> NoObj, ub |-> TRUE, ovf |-> FALSE]
  ELSE LET f == FindProbObjByRandKey(pool,
                  CRem(IF 0 > nRand THEN rnd ELSE nRand, total))
       IN [ret |-> f.ret, obj |-> f.obj, ub |-> FALSE, ovf |-> f.ovf]

\* DrawResult without the reduction `% m_nCurrentProbObjCount`.
DrawResult_NoModulo(pool, total, nRand, rnd) ==
  IF 0 >= total THEN [ret |-> FALSE, obj |-> NoObj, ub |-> FALSE, ovf |-> FALSE]
  ELSE IF nRand < 0 /\ -1 # nRand THEN [ret |-> FALSE, obj |-> NoObj, ub |-> FALSE, ovf |-> FALSE]
  ELSE LET f == FindProbObjByRandKey(pool, IF 0 > nRand THEN rnd ELSE nRand)
       IN [ret |-> f.ret, obj |-> f.obj, ub |-> FALSE, ovf |-> f.ovf]

\* DrawResult that takes rand() whatever nRand is.
DrawResult_AlwaysRand(pool, total, nRand, rnd) ==
  IF 0 >= total THEN [ret |-> FALSE, obj |-> NoObj, ub |-> FALSE, ovf |-> FALSE]
  ELSE IF nRand < 0 /\ -1 # nRand THEN [ret |-> FALSE, obj |-> NoObj, ub |-> FALSE, ovf |-> FALSE]
  ELSE LET f == FindProbObjByRandKey(pool, CRem(rnd, total))
       IN [ret |-> f.ret, obj |-> f.obj, ub |-> FALSE, ovf |-> f.ovf]

\* bool Draw(T1&, const int nRand); rnd is what rand() would return.
\* ub: the call evaluated `% 0` (undefined behaviour); ovf: the prefix sum
\* of FindProbObjByRandKey left the int range.
DrawResult(pool, total, nRand, rnd) ==
  IF 0 >= total THEN [ret |-> FALSE, obj |-> NoObj, ub |-> FALSE, ovf |-> FALSE]
  ELSE IF nRand < 0 /\ -1 # nRand THEN [ret |-> FALSE, obj |-> NoObj, ub |-> FALSE, ovf |-> FALSE]
  ELSE IF total = 0 THEN [ret |-> FALSE, obj |-> NoObj, ub |-> TRUE, ovf |-> FALSE]
  ELSE LET nKeyNum == CRem(IF 0 > nRand THEN rnd ELSE nRand, total)
           f == FindProbObjByRandKey(pool, nKeyNum)
       IN [ret |-> f.ret, obj |-> f.obj, ub |-> FALSE, ovf |-> f.ovf]

\* ------------------------------------------------------------------ state
\* No call observed: the value of the ghost variable between calls.
NoCall == [op |-> "none"]

\* The constructor: total 0, empty pool.
Init ==
  /\ m_nCurrentProbObjCount = 0
  /\ m_vecProbObjPool = <<>>
  /\ last = NoCall

\* Counts tried per pair: a call with one pair tries every int, a call with
\* two pairs BatchCounts, a longer call LongBatchCounts.
BatchCounts == {-1, 1, 2}
LongBatchCounts == {-1, 1}
ArraysOf(S, n) == [1 .. n -> S]
CountsFor(n) ==
  IF n = 1 THEN Ints ELSE IF n = 2 THEN BatchCounts ELSE LongBatchCounts

\* Argument lists of the array form: well-formed ones, and one of each kind
\* that the first line of Modify rejects.
ModifyArgs ==
  UNION { { [t1ProbObj |-> o, pCount |-> c, nLen |-> n]
            : o \in ArraysOf(Items, n), c \in ArraysOf(CountsFor(n), n) }
          : n \in 1 .. MaxLen }
  \cup { [t1ProbObj |-> NULL, pCount |-> <<1>>, nLen |-> 1],
         [t1ProbObj |-> <<1>>, pCount |-> NULL, nLen |-> 1],
         [t1ProbObj |-> NULL, pCount |-> NULL, nLen |-> 1],
         [t1ProbObj |-> <<1>>, pCount |-> <<1>>, nLen |-> 0],
         [t1ProbObj |-> <<1>>, pCount |-> <<1>>, nLen |-> -1] }

ModifyRecord(op, objs, counts, nLen, out) ==
  [op |-> op, objs |-> objs, counts |-> counts, nLen |-> nLen,
   prePool |-> m_vecProbObjPool, preTotal |-> m_nCurrentProbObjCount,
   threw |-> out.threw, ovf |-> out.ovf]

\* void Modify(const T1* t1ProbObj, const int* pCount, const int nLen = 1)
Modify ==
  /\ last = NoCall
  /\ \E a \in ModifyArgs :
       IF NULL = a.t1ProbObj \/ NULL = a.pCount \/ 0 >= a.nLen THEN
         /\ UNCHANGED <<m_nCurrentProbObjCount, m_vecProbObjPool>>
         /\ last' = ModifyRecord("Modify", a.t1ProbObj, a.pCount, a.nLen,
                      BoxState(m_vecProbObjPool, m_nCurrentProbObjCount))
       ELSE
         \E out \in ModifyLoop(BoxState(m_vecProbObjPool, m_nCurrentProbObjCount),
                               a.t1ProbObj, a.pCount, 1) :
           /\ m_vecProbObjPool' = out.pool
           /\ m_nCurrentProbObjCount' = out.total
           /\ last' = ModifyRecord("Modify", a.t1ProbObj, a.pCount, a.nLen, out)

\* template <typename T2> void Modify(const T2& t2ProbObj): the container is
\* the sequence of pairs its iteration yields (it may be empty).
ModifyT2 ==
  /\ last = NoCall
  /\ \E n \in 0 .. MaxLen :
       \E objs \in ArraysOf(Items, n), counts \in ArraysOf(CountsFor(n), n) :
         \E out \in ModifyLoop(BoxState(m_vecProbObjPool, m_nCurrentProbObjCount),
                               objs, counts, 1) :
           /\ m_vecProbObjPool' = out.pool
           /\ m_nCurrentProbObjCount' = out.total
           /\ last' = ModifyRecord("ModifyT2", objs, counts, n, out)

\* Clear that swaps the pool out but leaves the cached total.
Clear_KeepsCount ==
  /\ last = NoCall
  /\ UNCHANGED m_nCurrentProbObjCount
  /\ m_vecProbObjPool' = <<>>
  /\ last' = [op |-> "Clear", prePool |-> m_vecProbObjPool,
              preTotal |-> m_nCurrentProbObjCount]

\* void Clear()
Clear ==
  /\ last = NoCall
  /\ m_nCurrentProbObjCount' = 0
  /\ m_vecProbObjPool' = <<>>
  /\ last' = [op |-> "Clear", prePool |-> m_vecProbObjPool,
              preTotal |-> m_nCurrentProbObjCount]

\* The ghost record of a Draw call with result r.
DrawRecord(nRand, r) ==
  [op |-> "Draw", nRand |-> nRand, ret |-> r.ret, obj |-> r.obj,
   ub |-> r.ub, ovf |-> r.ovf, prePool |-> m_vecProbObjPool,
   preTotal |-> m_nCurrentProbObjCount]

\* Draw that takes the drawn ticket out of the box: a successful draw
\* lowers the total by one.
Draw_TakesTicket ==
  /\ last = NoCall
  /\ \E nRand \in Ints :
       \E rnd \in (IF nRand = -1 THEN 0 .. RAND_MAX ELSE {0}) :
         LET r == DrawResult(m_vecProbObjPool, m_nCurrentProbObjCount, nRand, rnd) IN
         /\ m_nCurrentProbObjCount' =
              (IF r.ret THEN m_nCurrentProbObjCount - 1 ELSE m_nCurrentProbObjCount)
         /\ UNCHANGED m_vecProbObjPool
         /\ last' = DrawRecord(nRand, r)

\* bool Draw(T1& t1ProbObj, const int nRand = -1)
Draw ==
  /\ last = NoCall
  /\ \E nRand \in Ints :
       \E rnd \in (IF nRand = -1 THEN 0 .. RAND_MAX ELSE {0}) :
         LET r == DrawResult(m_vecProbObjPool, m_nCurrentProbObjCount, nRand, rnd) IN
         /\ UNCHANGED <<m_nCurrentProbObjCount, m_vecProbObjPool>>
         /\ last' = DrawRecord(nRand, r)

\* A call of Version(): the box is left alone, the result is recorded.
CallVersion ==
  /\ last = NoCall
  /\ UNCHANGED <<m_nCurrentProbObjCount, m_vecProbObjPool>>
  /\ last' = [op |-> "Version", ret |-> Version]

\* The call has returned and its caller goes on: the ghost record of the
\* call is dropped, the box is as the call left it.
Return ==
  /\ last # NoCall
  /\ last' = NoCall
  /\ UNCHANGED <<m_nCurrentProbObjCount, m_vecProbObjPool>>

Next == Modify \/ ModifyT2 \/ Clear \/ Draw \/ CallVersion \/ Return

Spec == Init /\ [][Next]_vars

\* ================================================================ claims
\* Abbreviations for the formulas below.
Pool == m_vecProbObjPool
Total == m_nCurrentProbObjCount
Capacity == m_scnProbObjBoxCapacity

\* The last call was a Modify (either overload) that got past the argument
\* test of its first line.
ModifyApplied ==
  /\ last.op \in {"Modify", "ModifyT2"}
  /\ last.objs # NULL /\ last.counts # NULL /\ last.nLen >= 1
\* ... and it had exactly one pair (x, c).
SingleModify == ModifyApplied /\ last.nLen = 1
ArgX == last.objs[1]
ArgC == last.counts[1]
\* GetCount(x) before the call.
OldCount == GetCount(last.prePool, last.preTotal, ArgX)
Unchanged == Pool = last.prePool /\ Total = last.preTotal
Present(pool, x) == \E i \in DOMAIN pool : pool[i].first = x

\* Sum of the counts of the entries before entry i: the low end of its range.
Low(pool, i) == SumSeconds(SubSeq(pool, 1, i - 1))
\* The entries whose half-open range [low, low + count) contains key.
Matching(pool, key) ==
  { i \in DOMAIN pool : Low(pool, i) <= key /\ key < Low(pool, i) + pool[i].second }
MinOf(S) == CHOOSE k \in S : \A h \in S : k <= h

\* C1: the cached total GetCount() equals the sum of the counts of all
\* entries in the pool, in every state reachable by Modify and Clear calls.
C1_TotalIsSumOfWeights ==
  GetCount(Pool, Total, NoObj) = SumSeconds(Pool)

\* C2 as stated (set-to semantics): after Modify(x, w) with w > 0 fitting the
\* capacity, GetCount(x) = w and GetCount() changed by w - old count of x.
\* Stated here for calls in which no push_back threw.
C2_ReplaceSemantics ==
  (/\ SingleModify /\ ArgC > 0
   /\ last.preTotal - OldCount + ArgC <= Capacity
   /\ last.threw = <<FALSE>>)
  => /\ GetCount(Pool, Total, ArgX) = ArgC
     /\ Total - last.preTotal = ArgC - OldCount

\* C2 amended (add-to semantics): after Modify(x, c) with c > 0 and
\* total + c <= capacity, GetCount() has grown by exactly c, and GetCount(x)
\* is old count + c -- except that x stays absent when it was absent and the
\* push_back threw.  Modify(x, c) twice on an empty box leaves 2c, not c.
C2_AdditiveSemantics ==
  (SingleModify /\ ArgC > 0 /\ last.preTotal + ArgC <= Capacity)
  => /\ Total = last.preTotal + ArgC
     /\ last.threw[1] => OldCount = 0
     /\ GetCount(Pool, Total, ArgX)
          = (IF last.threw[1] THEN 0 ELSE OldCount + ArgC)

\* C2 witness: Modify(x, 1) on a box holding only x with count 1 (the state
\* Modify(x, 1) leaves of an empty box) has made the count 2.
C2_Witness ==
  /\ SingleModify /\ ArgC = 1
  /\ last.prePool = <<[first |-> ArgX, second |-> 1]>> /\ last.preTotal = 1
  /\ Pool = <<[first |-> ArgX, second |-> 2]>> /\ Total = 2

\* C3 as stated: after Modify(x, 0), x is absent from the pool, GetCount(x)
\* is 0 and GetCount() has decreased by x's former count (the pool is one
\* entry shorter); if x was absent the box is unchanged.
C3_RemovalByZero ==
  (SingleModify /\ ArgC = 0)
  => /\ ~Present(Pool, ArgX)
     /\ GetCount(Pool, Total, ArgX) = 0
     /\ Total = last.preTotal - OldCount
     /\ Present(last.prePool, ArgX) => Len(Pool) = Len(last.prePool) - 1
     /\ ~Present(last.prePool, ArgX) => Unchanged

\* C3 amended: Modify(x, 0) leaves the box unchanged whether or not x is
\* present; x is removed by taking out its whole count: after Modify(x, -w),
\* w > 0 being x's count, x is absent, GetCount(x) is 0, GetCount() has
\* decreased by w and the pool is one entry shorter.
C3_ZeroIsNoOpRemovalByTakeOut ==
  /\ (SingleModify /\ ArgC = 0) => Unchanged
  /\ (SingleModify /\ OldCount > 0 /\ ArgC = -OldCount)
     => /\ ~Present(Pool, ArgX)
        /\ GetCount(Pool, Total, ArgX) = 0
        /\ Total = last.preTotal - OldCount
        /\ Len(Pool) = Len(last.prePool) - 1

\* C3 witness: Modify(x, 0) was called on a box that holds x.
C3_Witness ==
  SingleModify /\ ArgC = 0 /\ Present(last.prePool, ArgX) /\ Present(Pool, ArgX)

\* C4: Modify(x, w) with w > 0 and total - count of x + w > capacity leaves
\* the pool (items, counts, order) and the total exactly as they were.
C4_CapacityGuard ==
  (SingleModify /\ ArgC > 0 /\ last.preTotal - OldCount + ArgC > Capacity)
  => Unchanged

\* C4 witness: such a call was made for an x that is in the pool.
C4_Witness ==
  /\ SingleModify /\ ArgC > 0 /\ OldCount > 0
  /\ last.preTotal - OldCount + ArgC > Capacity
  /\ Unchanged

\* C5: in every reachable state 0 <= total <= capacity.
C5_TotalWithinCapacity ==
  0 <= Total /\ Total <= Capacity

\* C5 witness: the box is full and a Modify with a positive count was
\* turned away.
C5_Witness ==
  /\ SingleModify /\ ArgC > 0
  /\ last.preTotal = Capacity /\ Total = Capacity /\ Len(Pool) > 0

\* C6: every entry of the pool has a count strictly greater than 0.
C6_WeightsPositive ==
  \A i \in DOMAIN Pool : Pool[i].second > 0

\* C6 witness: a take-out brought the count of x to exactly 0 and the entry
\* is gone, another entry remaining.
C6_Witness ==
  /\ SingleModify /\ ArgC < 0 /\ OldCount = -ArgC
  /\ ~Present(Pool, ArgX) /\ Len(Pool) > 0

\* C7: no two entries of the pool hold equal items.
C7_NoDuplicateItems ==
  \A i, j \in DOMAIN Pool : i # j => Pool[i].first # Pool[j].first

\* C7 witness: one call put the same item in twice (no push_back threw), and
\* the pool holds one entry for it with both counts.
C7_Witness ==
  /\ ModifyApplied /\ last.nLen = 2
  /\ last.objs[1] = last.objs[2]
  /\ last.counts = <<1, 1>> /\ last.threw = <<FALSE, FALSE>>
  /\ ~Present(last.prePool, last.objs[1])
  /\ GetCount(Pool, Total, last.objs[1]) = 2

C9_Coverage ==
  Total > 0
  => /\ \A key \in 0 .. (Total - 1) :
          /\ DrawResult(Pool, Total, key, 0).ret
          /\ Cardinality(Matching(Pool, key)) = 1
     /\ \A i \in DOMAIN Pool :
          Cardinality({ key \in 0 .. (Total - 1) :
                          LET r == DrawResult(Pool, Total, key, 0)
                          IN r.ret /\ r.obj = Pool[i].first })
            = Pool[i].second

\* C10: whenever the total is 0, Draw returns failure for every nRand (the
\* sentinel -1 with any rand() value included) and evaluates no `% 0`.
C10_EmptyDrawFails ==
  /\ Total = 0
     => \A nRand \in Ints, rnd \in 0 .. RAND_MAX :
          LET r == DrawResult(Pool, Total, nRand, rnd)
          IN ~r.ret /\ ~r.ub /\ r.obj = NoObj
  /\ (last.op = "Draw" /\ Total = 0) => ~last.ret /\ ~last.ub

\* C10 witness: Draw was called with the sentinel on a box whose total is 0.
C10_Witness ==
  last.op = "Draw" /\ last.nRand = -1 /\ Total = 0 /\ Pool = <<>> /\ ~last.ret

\* C11: Draw has no side effects: whatever nRand (valid, invalid or the
\* sentinel) and whether it succeeds or fails, the pool (contents and order)
\* and the total are the same after the call as before it.
C11_DrawHasNoSideEffects ==
  last.op = "Draw" => Pool = last.prePool /\ Total = last.preTotal

\* C11 witness: a Draw with the sentinel succeeded on a pool of two entries.
C11_Witness ==
  /\ last.op = "Draw" /\ last.nRand = -1 /\ last.ret
  /\ Len(Pool) = 2 /\ Pool = last.prePool /\ Total = last.preTotal

\* C12: Modify(x, w) for an x not in the pool, w > 0 and total + w <=
\* capacity appends (x, w) as the last entry, raises the total by exactly w
\* and leaves every earlier entry and the order as they were; so one call
\* with distinct new items on an empty box yields the pool in the order
\* given, Draw(0) returning the first item and Draw(total - 1) the last.
C12_InsertionAppends ==
  /\ (/\ SingleModify /\ ~Present(last.prePool, ArgX)
      /\ ArgC > 0 /\ last.preTotal + ArgC <= Capacity)
     => /\ Pool = Append(last.prePool, [first |-> ArgX, second |-> ArgC])
        /\ Total = last.preTotal + ArgC
  /\ (/\ ModifyApplied /\ last.prePool = <<>> /\ last.preTotal = 0
      /\ \A i, j \in 1 .. last.nLen : i # j => last.objs[i] # last.objs[j]
      /\ \A i \in 1 .. last.nLen : last.counts[i] > 0
      /\ SumSeconds([i \in 1 .. last.nLen |-> [second |-> last.counts[i]]])
           <= Capacity)
     => /\ Pool = [i \in 1 .. last.nLen |->
                     [first |-> last.objs[i], second |-> last.counts[i]]]
        /\ DrawResult(Pool, Total, 0, 0).obj = last.objs[1]
        /\ DrawResult(Pool, Total, Total - 1, 0).obj = last.objs[last.nLen]

\* What a Modify call leaves: pool, total and, per pair, whether its
\* push_back threw.
Outcome(pool, total, threw) == [pool |-> pool, total |-> total, threw |-> threw]

\* The outcomes of one Modify call with the single pair (obj, c).
SingleCall(pool, total, obj, c) ==
  { Outcome(s.pool, s.total, s.threw)
    : s \in ModifyLoop(BoxState(pool, total), <<obj>>, <<c>>, 1) }

RECURSIVE SuccessiveCalls(_, _, _)
\* Successive single-pair Modify calls for the pairs i .. last.nLen of the
\* last call, in order, started from (pool, total) and with the push_back
\* outcomes of the last call, can end in the current state.
SuccessiveCalls(pool, total, i) ==
  IF i > last.nLen THEN pool = Pool /\ total = Total
  ELSE \E s \in SingleCall(pool, total, last.objs[i], last.counts[i]) :
         /\ s.threw = <<last.threw[i]>>
         /\ SuccessiveCalls(s.pool, s.total, i + 1)

\* C13: a Modify call (array or container form) with the pairs p_1 .. p_n
\* ends in the same state as n successive single-pair Modify calls in the
\* same order (with the same push_back outcomes); a skipped pair neither
\* rolls back earlier pairs nor stops later ones.
C13_BatchIsSuccessiveSingles ==
  (ModifyApplied /\ last.nLen >= 2)
  => /\ Len(last.threw) = last.nLen
     /\ SuccessiveCalls(last.prePool, last.preTotal, 1)

\* C13 witness: the first pair of a call was a rejected take-out (its item
\* was not in the pool) and the second pair was applied all the same.
C13_Witness ==
  /\ ModifyApplied /\ last.nLen = 2
  /\ last.counts[1] < 0 /\ ~Present(last.prePool, last.objs[1])
  /\ last.counts[2] > 0 /\ last.threw = <<FALSE, FALSE>>
  /\ Total = last.preTotal + last.counts[2]
  /\ Len(last.prePool) > 0

\* C14: a Draw with an explicit key (any nRand but the sentinel -1) is a
\* function of the box and the key alone: after such a Draw, a Draw with the
\* same key on the same box (the first one left it unchanged) gives the same
\* success flag and the same item, whatever rand() would return.
C14_ExplicitDrawDeterministic ==
  (last.op = "Draw" /\ last.nRand # -1)
  => \A rnd \in 0 .. RAND_MAX :
       LET r == DrawResult(Pool, Total, last.nRand, rnd)
       IN r.ret = last.ret /\ r.obj = last.obj

\* C14 witness: a Draw with an explicit key returned the item of the first
\* of two entries.
C14_Witness ==
  /\ last.op = "Draw" /\ last.nRand >= 0 /\ last.ret
  /\ Len(Pool) = 2 /\ last.obj = Pool[1].first

\* C15: Clear can always be called, and from any state it leaves the box as
\* the constructor does: empty pool, total 0, GetCount(x) = 0 for every x.
C15_ClearGivesFreshBox ==
  /\ last = NoCall => ENABLED Clear
  /\ last.op = "Clear"
     => /\ Pool = <<>> /\ Total = 0
        /\ GetCount(Pool, Total, NoObj) = 0
        /\ \A x \in Items : GetCount(Pool, Total, x) = 0

\* C15 witness: Clear was called on a box with two entries.
C15_Witness ==
  last.op = "Clear" /\ Len(last.prePool) = 2 /\ last.preTotal > 0 /\ Pool = <<>>

\* C16: on a non-empty box, Draw with a negative nRand other than the
\* sentinel -1 returns failure, and Draw with the sentinel or with any
\* non-negative nRand returns success.
C16_InvalidRandomInput ==
  (last.op = "Draw" /\ Pool # <<>>)
  => /\ (last.nRand < 0 /\ last.nRand # -1) => ~last.ret
     /\ (last.nRand = -1 \/ last.nRand >= 0) => last.ret

\* C17 as stated: Version() returns 2 in every state.
C17_VersionIsTwo ==
  last.op = "Version" => last.ret = 2

\* C17 amended: Version() returns 1 in every state (the revision of the
\* add-to design that this header implements).
C17_VersionIsOne ==
  last.op = "Version" => last.ret = 1

\* C17 witness: Version() was called on a box that holds entries.
C17_Witness ==
  last.op = "Version" /\ last.ret = 1 /\ Len(Pool) = 2

\* C18: for every count of the int range (the minimum included) no
\* computation of Modify (capacity - total, entry count + count, total +
\* count) and no step of the prefix sum of Draw leaves the int range: the
\* exact result always equals the machine result.
C18_NoOverflow ==
  /\ ModifyApplied => ~last.ovf
  /\ last.op = "Draw" => ~last.ovf

\* C18 witness: Modify was called with the least int for an item that is in
\* the pool of a full box.
C18_Witness ==
  /\ SingleModify /\ ArgC = INT_MIN /\ Present(last.prePool, ArgX)
  /\ last.preTotal = Capacity /\ ~last.ovf

\* C19: take-out: for x in the pool with count w and k < 0 with w + k >= 0,
\* Modify(x, k) makes the count of x w + k (the entry is erased when that is
\* 0 and keeps its place otherwise), lowers the total by exactly |k| and
\* leaves every other entry and the order of the entries as they were.
C19_TakeOut ==
  (SingleModify /\ ArgC < 0 /\ OldCount > 0 /\ OldCount + ArgC >= 0)
  => /\ Total = last.preTotal + ArgC
     /\ GetCount(Pool, Total, ArgX) = OldCount + ArgC
     /\ IF OldCount + ArgC = 0
        THEN Pool = SelectSeq(last.prePool, LAMBDA e : e.first # ArgX)
        ELSE /\ Len(Pool) = Len(last.prePool)
             /\ \A i \in DOMAIN Pool :
                  /\ Pool[i].first = last.prePool[i].first
                  /\ Pool[i].second =
                       (IF Pool[i].first = ArgX THEN OldCount + ArgC
                        ELSE last.prePool[i].second)

\* C19 witness: the whole count of the second of two entries was taken out
\* and the first entry is what remains.
C19_Witness ==
  /\ SingleModify /\ ArgC < 0 /\ OldCount = -ArgC
  /\ Len(last.prePool) = 2 /\ last.prePool[2].first = ArgX
  /\ Pool = <<last.prePool[1]>>

\* C20: rejected take-out: Modify(x, k) with k < 0 for an x that is not in
\* the pool, or whose count is less than |k|, leaves the pool and the total
\* exactly as they were.
C20_RejectedTakeOut ==
  (SingleModify /\ ArgC < 0 /\ OldCount + ArgC < 0) => Unchanged

\* C20 witness: more was asked for than the pool holds of x, which it does
\* hold.
C20_Witness ==
  /\ SingleModify /\ ArgC < 0 /\ OldCount > 0 /\ OldCount + ArgC < 0
  /\ Unchanged

====
